---- MODULE Spec2Model ----
(***************************************************************************)
(* Token sources of otoken: the cached token source (pkg/tokenstore), the  *)
(* device authorization flow (pkg/devauth) and the native app flow         *)
(* (pkg/appauth).  One variant runs per behaviour, as the command line     *)
(* program constructs one source per invocation.                           *)
(***************************************************************************)
EXTENDS Integers, Sequences, FiniteSets, TLC

----------------------------------------------------------------------------
(* Bounds *)

MaxTime == 8           \* the clock of the device and app flows runs over 1..MaxTime (seconds)
MaxCacheSteps == 2     \* how often time passes (ten seconds a step) in the cached variant
NumCallers == 2        \* concurrent callers of CachedTokenSource.Token()
IntBits == 7           \* width of expirationTime in the model (int32 in the code)
MaxRefreshCalls == 3   \* successive Token() calls on one refresh token source
MaxScopes == 3         \* length of the scope list given to a constructor
MaxPollCalls == 2      \* PollToken calls made on one Authorizor
MaxConcCalls == 2      \* Token() calls each concurrent caller of a refresh token source makes

----------------------------------------------------------------------------
(* Tokens, errors, time *)

\* oauth2.Token validity margin (expiryDelta), in seconds
ExpiryDelta == 10

Callers == 1..NumCallers

NoErr == "nil"

\* a nil *oauth2.Token
NilTok == [nil |-> TRUE, at |-> "", rt |-> "", exp |-> 0]

\* &oauth2.Token{AccessToken: at, RefreshToken: rt, Expiry: exp}; exp = 0 is the zero time
Tok(at, rt, exp) == [nil |-> FALSE, at |-> at, rt |-> rt, exp |-> exp]

\* oauth2.Token.expired: Expiry set and Expiry - expiryDelta before now
Expired(t, time) == t.exp # 0 /\ t.exp - ExpiryDelta < time

\* oauth2.Token.Valid: non-nil, access token set, not expired (nil-safe)
Valid(t, time) == ~t.nil /\ t.at # "" /\ ~Expired(t, time)

VARIABLES
  variant,      \* which token source this run exercises
  now,          \* the clock
  crashed,      \* the process has panicked
  \* ---- CachedTokenSource
  Src,          \* c.Src is configured (non-nil)
  Refresher,    \* c.Refresher is configured (non-nil)
  storeKind,    \* "mem" (MemStore) or "file" (FileStore)
  memToken,     \* MemStore.token
  file,         \* content of the file at FileStore.Path
  mu,           \* c.mu: 0 when free, else the caller holding it
  cpc,          \* per caller: position in Token()
  token,        \* per caller: local variable token
  err,          \* per caller: local variable err
  cret,         \* per caller: what Token() returned
  loaded,       \* per caller: what c.Store.Token() returned in this call
  refreshLog,   \* per caller: refresh tokens submitted to c.Refresher.Refresh
  refreshOut,   \* per caller: outcomes of c.Refresher.Refresh
  srcOut,       \* per caller: outcomes of c.Src.Token()
  saves,        \* per caller: tokens passed to c.Store.Save
  saveFailed,   \* some c.Store.Save has failed
  waited,       \* per caller: who held c.mu when the caller entered Token()
  \* ---- device flow: devauth.TokenSource and its Authorizor
  tokenEndpoint, \* d.tokenEndpoint
  authEndpoint, \* d.authEndpoint
  lastReq,      \* the request sent last: its kind and the URL it went to
  timeout,      \* s.timeout, 0 when not set
  ctxDeadline,  \* deadline of the context made in Token(), 0 when there is none
  dpc,          \* position in TokenSource.Token()
  authResp,     \* d.authResp
  codeResps,    \* the device code responses received, with the time of reception
  userURI,      \* what RequestCode returned to Token()
  prompts,      \* the user codes s.prompter was invoked with
  opens,        \* the URIs s.opener was invoked with
  pollCalls,    \* how often PollToken was entered
  pollStart,    \* the time PollToken was entered
  pollDeadline, \* deadline of the context made in PollToken
  nextTick,     \* the time of the ticker's next tick
  tickBuf,      \* a tick is waiting in ticker.C
  polls,        \* the times at which the current PollToken call sent token requests
  dresps,       \* the responses the token endpoint gave to them
  dret,         \* what Token() returned
  dretTime,     \* when Token() returned
  \* ---- native app flow: appauth.TokenSource
  usePKCE,      \* s.usePKCE
  appTimeout,   \* s.timeout, 0 when not set
  appDeadline,  \* deadline of the context made in Token(), 0 when there is none
  apc,          \* position of Token()
  openTask,     \* the goroutine that waits for the local server and opens the URL
  getTask,      \* the goroutine that runs oauth2cli.GetToken
  readyChan,    \* readyChan, a channel of capacity 1
  readySent,    \* the URL of the local server was sent to readyChan in this call
  listening,    \* the loopback listener is bound
  opened,       \* how often s.opener was invoked
  appToken,     \* the variable token shared by Token() and the second goroutine
  egErr,        \* the first error a goroutine of the errgroup returned
  aret,         \* what Token() returned
  \* ---- refresh token source: refresher.TokenSource
  rimpl,        \* which TokenSource: "refresher" (over TokenRefresher) or "standalone"
  refreshToken, \* t.refreshToken
  rpc,          \* position in Token()
  rcalls,       \* the Token() calls made so far: stored token before, request sent, result, stored token after
  \* ---- construction: NewPKCE, NewImplicit, devauth New
  ctor,         \* the constructor called
  scopes,       \* the scope list given to the constructor
  spc,          \* "new" before the constructor has run, "built" after
  configured,   \* the scopes field of the constructed value
  \* ---- refresh token source called from two goroutines
  provider,     \* the refresh token the provider currently accepts
  rcpc,         \* per caller: position in Token()
  submitted,    \* per caller: the refresh token read from t.refreshToken and sent
  issued,       \* per caller: the refresh token of the result, "" when the exchange failed
  rcount,       \* per caller: Token() calls that have returned
  revents       \* the requests sent, exchanges made and results stored, in order

cacheVars == <<Src, Refresher, storeKind, memToken, file, mu, cpc, token, err, cret,
               loaded, refreshLog, refreshOut, srcOut, saves, saveFailed, waited>>

devVars == <<prompts, opens, tokenEndpoint, authEndpoint, lastReq, timeout, ctxDeadline, dpc, authResp, codeResps, userURI, pollCalls, pollStart, pollDeadline, nextTick,
             tickBuf, polls, dresps, dret, dretTime>>

appVars == <<usePKCE, appTimeout, appDeadline, apc, openTask, getTask, readyChan, readySent, listening,
             opened, appToken, egErr, aret>>

refVars == <<rimpl, refreshToken, rpc, rcalls>>

scopeVars == <<ctor, scopes, spc, configured>>

concVars == <<provider, rcpc, submitted, issued, rcount, revents>>

vars == <<variant, now, crashed, cacheVars, devVars, appVars, refVars, scopeVars, concVars>>

----------------------------------------------------------------------------
(* Stores *)

\* the file does not exist (or FileStore.Path is empty): os.ReadFile fails
RawAbsent == [present |-> FALSE, access_token |-> "", refresh_token |-> "", expiry |-> 0, bad |-> FALSE]

\* json.Marshal(token): the fields of the JSON object written to the file
Marshal(t) ==
  IF t.nil
  THEN [present |-> TRUE, access_token |-> "", refresh_token |-> "", expiry |-> 0, bad |-> FALSE]
  ELSE [present |-> TRUE, access_token |-> t.at, refresh_token |-> t.rt, expiry |-> t.exp, bad |-> FALSE]

\* a file whose JSON decodes in part and then fails (a field of the wrong type)
Corrupt(raw) == [raw EXCEPT !.bad = TRUE]

\* FileStore.Token: read the file, decode into a fresh token, return token and error
FileStoreToken(raw) ==
  IF ~raw.present
  THEN [tok |-> NilTok, err |-> "load"]
  ELSE [tok |-> Tok(raw.access_token, raw.refresh_token, raw.expiry),
        err |-> IF raw.bad THEN "load" ELSE NoErr]

\* MemStore.Token: the token when it is set and valid, else (nil, nil)
MemStoreToken(t, time) ==
  IF ~t.nil /\ Valid(t, time) THEN [tok |-> t, err |-> NoErr] ELSE [tok |-> NilTok, err |-> NoErr]

\* c.Store.Token()
StoreToken == IF storeKind = "mem" THEN MemStoreToken(memToken, now) ELSE FileStoreToken(file)

\* c.Store.Save(t) by caller c; the error is ignored by the caller.
\* MemStore.Save always succeeds; FileStore.Save may fail in os.WriteFile,
\* leaving the file as it was or truncated.
StoreSave(c, t) ==
  /\ saves' = [saves EXCEPT ![c] = Append(@, t)]
  /\ IF storeKind = "mem"
     THEN /\ memToken' = t
          /\ UNCHANGED <<file, saveFailed>>
     ELSE /\ UNCHANGED memToken
          /\ \/ /\ file' = Marshal(t)
                /\ UNCHANGED saveFailed
             \/ /\ file' \in {file, Corrupt(Marshal(NilTok))}
                /\ saveFailed' = TRUE

----------------------------------------------------------------------------
(* Provider answers *)

\* TokenRefresher.Refresh(rt): an error when rt is empty, else the refresh_token grant.  On success the
\* token carries a new access token, the rotated refresh token or the submitted
\* one, and an expiry when the response has expires_in.
RefreshOutcomes(rt) ==
  IF rt = ""
  THEN {[tok |-> NilTok, err |-> "no refresh token provided"]}
  ELSE {[tok |-> Tok("a2", r, e), err |-> NoErr] :
           r \in {rt, "r2"}, e \in {0, now + 5, now + 2 * ExpiryDelta}}
         \cup {[tok |-> NilTok, err |-> "refresh"]}

\* c.Src.Token(): the device flow returns a token or an error, the app flow a
\* token or neither token nor error.
SrcOutcomes ==
  {[tok |-> Tok("a3", "r3", e), err |-> NoErr] : e \in {0, now + 5, now + 2 * ExpiryDelta}}
    \cup {[tok |-> NilTok, err |-> NoErr], [tok |-> NilTok, err |-> "src"]}

----------------------------------------------------------------------------
(* CachedTokenSource.Token() *)

\* the deferred Save made whenever err # nil, whatever the token is
SaveConditionAnyToken(localTok, localErr) == localErr # NoErr

\* lines 86-88: the condition of the deferred Save
SaveCondition(localTok, localErr) == localErr # NoErr /\ Valid(localTok, now)

\* the deferred functions and the return: Save when err # nil and token.Valid(),
\* then c.mu.Unlock()
Return(c, localTok, localErr, res) ==
  /\ token' = [token EXCEPT ![c] = localTok]
  /\ err' = [err EXCEPT ![c] = localErr]
  /\ IF SaveCondition(localTok, localErr)
     THEN StoreSave(c, localTok)
     ELSE UNCHANGED <<memToken, file, saves, saveFailed>>
  /\ mu' = 0
  /\ cret' = [cret EXCEPT ![c] = res]
  /\ cpc' = [cpc EXCEPT ![c] = "done"]

\* what a Token() call returned, and whether the token was valid at that time
Result(t, e) == [panic |-> FALSE, tok |-> t, err |-> e, valid |-> Valid(t, now)]
Panicked == [panic |-> TRUE, tok |-> NilTok, err |-> NoErr, valid |-> FALSE]
NoResult == [panic |-> FALSE, tok |-> NilTok, err |-> "none", valid |-> FALSE]

\* lines 103-107: delegate to c.Src when set, else fail
TrySrc(c, localTok, localErr) ==
  IF Src
  THEN /\ token' = [token EXCEPT ![c] = localTok]
       /\ err' = [err EXCEPT ![c] = localErr]
       /\ cpc' = [cpc EXCEPT ![c] = "authorizing"]
       /\ UNCHANGED <<memToken, file, saves, saveFailed, mu, cret>>
  ELSE Return(c, localTok, localErr, Result(NilTok, "nosource"))

\* a caller enters Token()
CallToken(c) ==
  /\ variant = "cached" /\ ~crashed
  /\ cpc[c] = "idle"
  /\ cpc' = [cpc EXCEPT ![c] = "lock"]
  /\ waited' = [waited EXCEPT ![c] = IF mu = 0 THEN {} ELSE {mu}]
  /\ UNCHANGED <<variant, concVars, scopeVars, refVars, now, crashed, Src, Refresher, storeKind, memToken, file, mu,
                 token, err, cret, loaded, refreshLog, refreshOut, srcOut, saves,
                 saveFailed, devVars, appVars>>

\* a lock that does not exclude: Lock() returns although c.mu is held
LockNotExclusive(c) == TRUE

\* c.mu.Lock()
LockAcquirable(c) == mu = 0

Lock(c) ==
  /\ variant = "cached" /\ ~crashed
  /\ cpc[c] = "lock"
  /\ LockAcquirable(c)
  /\ mu' = c
  /\ cpc' = [cpc EXCEPT ![c] = "load"]
  /\ UNCHANGED <<variant, concVars, scopeVars, refVars, now, crashed, Src, Refresher, storeKind, memToken, file,
                 token, err, cret, loaded, refreshLog, refreshOut, srcOut, saves,
                 saveFailed, waited, devVars, appVars>>

\* the validity check of line 93 left out: a loaded token is never returned as it is
LoadDecisionNoReuse(r) ==
  IF r.err = NoErr
  THEN IF r.tok.nil THEN "panic"
       ELSE IF r.tok.rt # "" /\ Refresher THEN "refresh"
       ELSE "src"
  ELSE "src"

\* lines 92-102: what Token() does with what the store returned
LoadDecision(r) ==
  IF r.err = NoErr
  THEN IF Valid(r.tok, now) THEN "return"
       ELSE IF r.tok.nil THEN "panic"   \* token.RefreshToken on a nil token
       ELSE IF r.tok.rt # "" /\ Refresher THEN "refresh"
       ELSE "src"
  ELSE "src"

\* lines 91-102: load from the store and decide
Load(c) ==
  /\ variant = "cached" /\ ~crashed
  /\ cpc[c] = "load"
  /\ LET r == StoreToken
         d == LoadDecision(r) IN
       /\ loaded' = [loaded EXCEPT ![c] = [tok |-> r.tok, err |-> r.err, valid |-> Valid(r.tok, now)]]
       /\ CASE d = "return" ->
                 /\ Return(c, r.tok, r.err, Result(r.tok, NoErr))
                 /\ UNCHANGED <<crashed, refreshLog>>
            [] d = "panic" ->
                 /\ Return(c, r.tok, r.err, Panicked)
                 /\ crashed' = TRUE
                 /\ UNCHANGED refreshLog
            [] d = "refresh" ->
                 /\ token' = [token EXCEPT ![c] = r.tok]
                 /\ err' = [err EXCEPT ![c] = r.err]
                 /\ refreshLog' = [refreshLog EXCEPT ![c] = Append(@, r.tok.rt)]
                 /\ cpc' = [cpc EXCEPT ![c] = "refreshing"]
                 /\ UNCHANGED <<crashed, memToken, file, saves, saveFailed, mu, cret>>
            [] OTHER ->
                 /\ TrySrc(c, r.tok, r.err)
                 /\ UNCHANGED <<crashed, refreshLog>>
  /\ UNCHANGED <<variant, concVars, scopeVars, refVars, now, Src, Refresher, storeKind, refreshOut, srcOut, waited, devVars, appVars>>

\* the result of the refresh never taken as a success
RefreshNeverSucceeds(out) == FALSE

\* line 98: if err == nil
RefreshSucceeded(out) == out.err = NoErr

\* lines 97-100: c.Refresher.Refresh returns
RefreshDone(c) ==
  /\ variant = "cached" /\ ~crashed
  /\ cpc[c] = "refreshing"
  /\ \E out \in RefreshOutcomes(token[c].rt) :
       /\ refreshOut' = [refreshOut EXCEPT ![c] = Append(@, out)]
       /\ IF RefreshSucceeded(out)
          THEN Return(c, out.tok, out.err, Result(out.tok, NoErr))
          ELSE TrySrc(c, out.tok, out.err)
  /\ UNCHANGED <<variant, concVars, scopeVars, refVars, now, crashed, Src, Refresher, storeKind, loaded, refreshLog,
                 srcOut, waited, devVars, appVars>>

\* the error of c.Src.Token() dropped on return
SrcResultErrorDropped(out) == Result(out.tok, NoErr)

\* line 105: return token, err
SrcResult(out) == Result(out.tok, out.err)

\* lines 104-105: c.Src.Token() returns
SrcDone(c) ==
  /\ variant = "cached" /\ ~crashed
  /\ cpc[c] = "authorizing"
  /\ \E out \in SrcOutcomes :
       /\ srcOut' = [srcOut EXCEPT ![c] = Append(@, out)]
       /\ Return(c, out.tok, out.err, SrcResult(out))
  /\ UNCHANGED <<variant, concVars, scopeVars, refVars, now, crashed, Src, Refresher, storeKind, loaded, refreshLog,
                 refreshOut, waited, devVars, appVars>>

----------------------------------------------------------------------------
(* Time *)

\* time passes while callers of the cached source run
TickCache ==
  /\ variant = "cached" /\ ~crashed
  /\ now < 1 + MaxCacheSteps * ExpiryDelta
  /\ now' = now + ExpiryDelta
  /\ UNCHANGED <<variant, concVars, scopeVars, refVars, crashed, cacheVars, devVars, appVars>>

----------------------------------------------------------------------------
(* Device flow: Authorizor.RequestCode, Authorizor.PollToken, TokenSource.Token *)

\* the interval RequestCode stores when the response has none
DefaultInterval == 5

NoResp == [device_code |-> "", user_code |-> "", verification_uri |-> "",
           verification_uri_complete |-> "", expires_in |-> 0, interval |-> 0]

\* math.MaxInt32, for the width of the model
MaxInt32 == 2 ^ (IntBits - 1) - 1

\* expirationTime(i): the conversion of an int64 to the narrower type keeps the
\* low bits
ToInt32(i) == ((i + 2 ^ (IntBits - 1)) % (2 ^ IntBits)) - 2 ^ (IntBits - 1)

\* expirationTime.UnmarshalJSON: values above MaxInt32 are clamped, then converted
UnmarshalJSON(i) == ToInt32(IF i > MaxInt32 THEN MaxInt32 ELSE i)

\* json decoding of the device code response: the numbers go through
\* expirationTime.UnmarshalJSON
DecodeCodeResponse(data) ==
  [data EXCEPT !.expires_in = UnmarshalJSON(@), !.interval = UnmarshalJSON(@)]

\* what the device authorization endpoint may answer: a transport error, a
\* status, a body that does not decode, or the fields of the JSON body
CodeResp(dc, uc, uri, uric, exp, int) ==
  [neterr |-> FALSE, status |-> 200, badjson |-> FALSE,
   data |-> [device_code |-> dc, user_code |-> uc, verification_uri |-> uri,
             verification_uri_complete |-> uric, expires_in |-> exp, interval |-> int]]

CodeResponses ==
  {CodeResp("dc", "uc", "uri", uric, exp, int) :
      uric \in {"", "uric"}, exp \in {2, 7}, int \in {0, 1, 2}}
    \cup {CodeResp("", "uc", "uri", "", 2, 1), CodeResp("dc", "", "uri", "", 2, 1),
          CodeResp("dc", "uc", "", "", 2, 1), CodeResp("dc", "uc", "uri", "", 0, 1),
          CodeResp("dc", "uc", "uri", "", -1, 1), CodeResp("dc", "uc", "uri", "uric", 2, -1),
          CodeResp("dc", "uc", "uri", "uric", 1 - 2 ^ IntBits, 1),
          CodeResp("dc", "uc", "uri", "uric", 2 ^ IntBits, 1),
          [CodeResp("dc", "uc", "uri", "", 2, 1) EXCEPT !.neterr = TRUE],
          [CodeResp("dc", "uc", "uri", "", 2, 1) EXCEPT !.status = 500],
          [CodeResp("dc", "uc", "uri", "", 2, 1) EXCEPT !.badjson = TRUE]}

\* what the token endpoint may answer to a poll
PollResp(at, rt, exp, e, desc) ==
  [neterr |-> FALSE, badjson |-> FALSE, access_token |-> at, refresh_token |-> rt,
   expires_in |-> exp, error |-> e, error_description |-> desc]

Pending == PollResp("", "", 0, "authorization_pending", "pending")

PollResponses ==
  {Pending,
   PollResp("d1", "dr", 60, "", ""), PollResp("d1", "", 0, "", ""),
   PollResp("", "", 0, "access_denied", "denied"),
   PollResp("", "", 0, "slow_down", "slow"),
   PollResp("", "", 0, "", ""),
   [Pending EXCEPT !.neterr = TRUE], [Pending EXCEPT !.badjson = TRUE]}

\* RequestCode line 133: the response is not a valid device code response
InvalidCodeResponse(data) ==
  data.device_code = "" \/ data.user_code = "" \/ data.verification_uri = "" \/ data.expires_in <= 0

\* RequestCode lines 136-139: store the response, default the interval
StoredResponse(data) ==
  IF data.interval = 0 THEN [data EXCEPT !.interval = DefaultInterval] ELSE data

\* the endpoints of the provider, as discovery returns them
Endpoint == [DeviceAuthURL |-> "device_authorization_endpoint", TokenURL |-> "token_endpoint"]

\* devauth.New(tokenEndpoint, authEndpoint, clientID, scopes)
New(tokenEndpointArg, authEndpointArg) ==
  [tokenEndpoint |-> tokenEndpointArg, authEndpoint |-> authEndpointArg]

\* devauth.NewTokenSource(tokenEndpoint, authEndpoint, clientID, scopes, opts...)
NewTokenSource(tokenEndpointArg, authEndpointArg) == New(tokenEndpointArg, authEndpointArg)

\* addDevAuth: the token source the dev-auth command makes
AddDevAuth == NewTokenSource(Endpoint.DeviceAuthURL, Endpoint.TokenURL)

\* no request was sent yet
NoRequest == [kind |-> "none", url |-> ""]

\* RequestCode returned nil
NoUserCodeURI == [nil |-> TRUE, user_code |-> "", verification_uri |-> "", verification_uri_complete |-> ""]

\* RequestCode lines 140-144: the UserCodeURI made of the stored response
UserCodeURI(resp) ==
  [nil |-> FALSE, user_code |-> resp.user_code, verification_uri |-> resp.verification_uri,
   verification_uri_complete |-> resp.verification_uri_complete]

\* Token() line 101: the server gave no complete verification URI
NeedsPrompt(u) == u.verification_uri_complete = ""

\* the opener given the plain verification URI in both branches
OpenerURIPlain(u) == u.verification_uri

\* Token() lines 101-107: the URI the opener is invoked with
OpenerURI(u) ==
  IF NeedsPrompt(u) THEN u.verification_uri ELSE u.verification_uri_complete

\* TokenSource.Token returns
DevReturn(t, e) ==
  /\ dret' = Result(t, e)
  /\ dretTime' = now
  /\ dpc' = "done"

\* context.WithTimeout(ctx, d): the earlier of the parent's deadline and now + d
WithTimeout(parent, d) == IF parent # 0 /\ parent < now + d THEN parent ELSE now + d

\* PollToken lines 151-154: the context bounded by expires_in and the ticker.
\* time.NewTicker panics on a non-positive interval.
StartPollUnder(parent, resp) ==
  /\ pollCalls' = pollCalls + 1
  /\ pollStart' = now
  /\ pollDeadline' = WithTimeout(parent, resp.expires_in)
  /\ IF resp.interval <= 0
     THEN /\ crashed' = TRUE
          /\ dret' = Panicked
          /\ dretTime' = now
          /\ dpc' = "done"
          /\ UNCHANGED <<nextTick, tickBuf>>
     ELSE /\ nextTick' = now + resp.interval
          /\ tickBuf' = FALSE
          /\ dpc' = "select"
          /\ UNCHANGED <<crashed, dret, dretTime>>

\* PollToken called from Token(), under the context of Token()
StartPoll(resp) == StartPollUnder(ctxDeadline, resp)

\* Token() lines 92-98: make the context, send the device code request
DevCall ==
  /\ variant = "device" /\ ~crashed
  /\ dpc = "idle"
  /\ ctxDeadline' = IF timeout > 0 THEN now + timeout ELSE 0
  /\ dpc' = "reqcode"
  /\ lastReq' = [kind |-> "code", url |-> authEndpoint]
  /\ UNCHANGED <<variant, concVars, scopeVars, refVars, now, crashed, cacheVars, appVars, prompts, opens, tokenEndpoint, authEndpoint, pollCalls, timeout, authResp, codeResps, userURI, pollStart,
                 pollDeadline, nextTick, tickBuf, polls, dresps, dret, dretTime>>

\* RequestCode lines 120-145 and Token() lines 99-107: the response arrives
CodeResponse ==
  /\ variant = "device" /\ ~crashed
  /\ dpc = "reqcode"
  /\ \E r \in CodeResponses :
       /\ codeResps' = Append(codeResps, [time |-> now, resp |-> r])
       /\ IF r.neterr \/ r.status # 200 \/ r.badjson \/ InvalidCodeResponse(DecodeCodeResponse(r.data))
          THEN /\ DevReturn(NilTok, "code")
               /\ userURI' = NoUserCodeURI
               /\ UNCHANGED <<crashed, authResp, prompts, opens, pollCalls, pollStart, pollDeadline, nextTick, tickBuf>>
          ELSE /\ authResp' = StoredResponse(DecodeCodeResponse(r.data))
               /\ userURI' = UserCodeURI(StoredResponse(DecodeCodeResponse(r.data)))
               /\ IF NeedsPrompt(UserCodeURI(StoredResponse(DecodeCodeResponse(r.data))))
                  THEN \* the prompter waits for the user to confirm
                       /\ prompts' = Append(prompts, UserCodeURI(StoredResponse(DecodeCodeResponse(r.data))).user_code)
                       /\ dpc' = "prompt"
                       /\ UNCHANGED <<crashed, dret, dretTime, opens, pollCalls, pollStart, pollDeadline, nextTick, tickBuf>>
                  ELSE /\ opens' = Append(opens, OpenerURI(UserCodeURI(StoredResponse(DecodeCodeResponse(r.data)))))
                       /\ StartPoll(StoredResponse(DecodeCodeResponse(r.data)))
                       /\ UNCHANGED prompts
  /\ UNCHANGED <<variant, concVars, scopeVars, refVars, now, cacheVars, appVars, tokenEndpoint, authEndpoint, lastReq, timeout, ctxDeadline, polls, dresps>>

\* Token() lines 103-104 and 109: the user confirms, the URL is opened, polling starts
PromptConfirmed ==
  /\ variant = "device" /\ ~crashed
  /\ dpc = "prompt"
  /\ opens' = Append(opens, OpenerURI(userURI))
  /\ StartPoll(authResp)
  /\ UNCHANGED <<variant, concVars, scopeVars, refVars, now, cacheVars, appVars, prompts, tokenEndpoint, authEndpoint, lastReq, timeout, ctxDeadline, authResp, codeResps, userURI, polls, dresps>>

\* PollToken line 157: the context is done
CtxDoneReady == now >= pollDeadline

\* PollToken line 159: a tick is ready
TickReady == tickBuf

\* PollToken lines 157-158: select takes <-ctx.Done()
SelectDone ==
  /\ variant = "device" /\ ~crashed
  /\ dpc = "select"
  /\ CtxDoneReady
  /\ DevReturn(NilTok, "timeout polling device token")
  /\ UNCHANGED <<variant, concVars, scopeVars, refVars, now, crashed, cacheVars, appVars, prompts, opens, tokenEndpoint, authEndpoint, lastReq, pollCalls, timeout, ctxDeadline, authResp, codeResps, userURI, pollStart,
                 pollDeadline, nextTick, tickBuf, polls, dresps>>

\* PollToken lines 159-164: select takes <-ticker.C and the token request is sent
SelectTick ==
  /\ variant = "device" /\ ~crashed
  /\ dpc = "select"
  /\ TickReady
  /\ tickBuf' = FALSE
  /\ polls' = Append(polls, now)
  /\ dpc' = "polling"
  /\ lastReq' = [kind |-> "poll", url |-> tokenEndpoint]
  /\ UNCHANGED <<variant, concVars, scopeVars, refVars, now, crashed, cacheVars, appVars, prompts, opens, tokenEndpoint, authEndpoint, pollCalls, timeout, ctxDeadline, authResp, codeResps, userURI, pollStart,
                 pollDeadline, nextTick, dresps, dret, dretTime>>

\* slow_down taken as a reason to go on polling, like authorization_pending
KeepsPollingOnSlowDown(r) == r.error \in {"authorization_pending", "slow_down"}

\* PollToken line 183: only authorization_pending keeps the loop going
KeepsPolling(r) == r.error = "authorization_pending"

\* PollToken lines 165-185: the response to the token request arrives
PollResponse ==
  /\ variant = "device" /\ ~crashed
  /\ dpc = "polling"
  /\ \E r \in PollResponses :
       /\ dresps' = Append(dresps, r)
       /\ IF r.neterr THEN DevReturn(NilTok, "transport")
          ELSE IF r.badjson THEN DevReturn(NilTok, "decode")
          ELSE IF r.access_token # ""
          THEN DevReturn(Tok(r.access_token, r.refresh_token, now + UnmarshalJSON(r.expires_in)), NoErr)
          ELSE IF ~KeepsPolling(r)
          THEN DevReturn(NilTok, r.error_description)
          ELSE dpc' = "select" /\ UNCHANGED <<dret, dretTime>>
  /\ UNCHANGED <<variant, concVars, scopeVars, refVars, now, crashed, cacheVars, appVars, prompts, opens, tokenEndpoint, authEndpoint, lastReq, pollCalls, timeout, ctxDeadline, authResp, codeResps, userURI, pollStart,
                 pollDeadline, nextTick, tickBuf, polls>>

\* PollToken is called on the Authorizor once more, under a context without a
\* deadline and with no RequestCode since the last PollToken returned:
\* d.authResp is what the last RequestCode left there
PollAgain ==
  /\ variant = "device" /\ ~crashed
  /\ dpc = "done"
  /\ pollCalls >= 1 /\ pollCalls < MaxPollCalls
  /\ ctxDeadline' = 0
  /\ StartPollUnder(0, authResp)
  /\ polls' = <<>>
  /\ dresps' = <<>>
  /\ UNCHANGED <<variant, concVars, scopeVars, refVars, now, cacheVars, appVars, prompts, opens, tokenEndpoint, authEndpoint, lastReq, timeout, authResp, codeResps,
                 userURI>>

\* Time passes.  While select can take a case the goroutine runs and no time
\* passes.  The ticker (channel of capacity 1) keeps one tick and drops the rest.
TickDev ==
  /\ variant = "device" /\ ~crashed
  /\ now < MaxTime
  /\ ~(dpc = "select" /\ (CtxDoneReady \/ TickReady))
  /\ now' = now + 1
  /\ IF dpc \in {"select", "polling"} /\ now + 1 = nextTick
     THEN /\ tickBuf' = TRUE
          /\ nextTick' = nextTick + authResp.interval
     ELSE UNCHANGED <<tickBuf, nextTick>>
  /\ UNCHANGED <<variant, concVars, scopeVars, refVars, crashed, cacheVars, appVars, prompts, opens, tokenEndpoint, authEndpoint, lastReq, pollCalls, timeout, ctxDeadline, dpc, authResp, codeResps, userURI, pollStart,
                 pollDeadline, polls, dresps, dret, dretTime>>

----------------------------------------------------------------------------
(* Native app flow: appauth.TokenSource.Token *)

\* the context of Token() is done: only its timeout ends it, the errgroup is a
\* plain errgroup.Group and cancels nothing
AppCtxDone == appDeadline # 0 /\ now >= appDeadline

\* a goroutine of the errgroup returns e: the group keeps the first error
GroupErr(e) == IF egErr = NoErr THEN e ELSE egErr

\* what the token endpoint may answer to the code exchange
ExchangeTokens == {Tok("p1", r, e) : r \in {"", "pr"}, e \in {0, now + 5, now + 60}}

\* Token() lines 156-214: configuration, PKCE parameters, context, and the two
\* goroutines started
AppCall ==
  /\ variant = "app" /\ ~crashed
  /\ apc = "idle"
  /\ \/ \* oauth2params.NewPKCE fails
        /\ usePKCE
        /\ aret' = Result(NilTok, "pkce")
        /\ apc' = "done"
        /\ UNCHANGED <<appDeadline, openTask, getTask>>
     \/ /\ appDeadline' = IF appTimeout > 0 THEN now + appTimeout ELSE 0
        /\ openTask' = "waiting"
        /\ getTask' = "binding"
        /\ apc' = "wait"
        /\ UNCHANGED aret
  /\ UNCHANGED <<variant, concVars, scopeVars, refVars, now, crashed, cacheVars, devVars, usePKCE, appTimeout, readyChan, readySent,
                 listening, opened, appToken, egErr>>

\* oauth2cli.GetToken binds the loopback listener, or fails to
GetBind ==
  /\ variant = "app" /\ ~crashed
  /\ getTask = "binding"
  /\ \/ /\ listening' = TRUE
        /\ getTask' = "bound"
        /\ UNCHANGED egErr
     \/ /\ getTask' = "err"
        /\ egErr' = GroupErr("could not get a token")
        /\ UNCHANGED listening
  /\ UNCHANGED <<variant, concVars, scopeVars, refVars, now, crashed, cacheVars, devVars, usePKCE, appTimeout, appDeadline,
                 apc, openTask, readyChan, readySent, opened, appToken, aret>>

\* oauth2cli.GetToken sends the URL of the local server to LocalServerReadyChan
GetReady ==
  /\ variant = "app" /\ ~crashed
  /\ getTask = "bound"
  /\ Len(readyChan) < 1
  /\ readyChan' = Append(readyChan, "url")
  /\ readySent' = TRUE
  /\ getTask' = "serving"
  /\ UNCHANGED <<variant, concVars, scopeVars, refVars, now, crashed, cacheVars, devVars, usePKCE, appTimeout, appDeadline,
                 apc, openTask, listening, opened, appToken, egErr, aret>>

\* the local server receives the redirect: with a code (after the user was
\* directed to the URL), or one that is refused
GetRedirect ==
  /\ variant = "app" /\ ~crashed
  /\ getTask = "serving"
  /\ listening' = FALSE
  /\ \/ /\ opened > 0
        /\ getTask' = "exchanging"
        /\ UNCHANGED egErr
     \/ /\ getTask' = "err"
        /\ egErr' = GroupErr("could not get a token")
  /\ UNCHANGED <<variant, concVars, scopeVars, refVars, now, crashed, cacheVars, devVars, usePKCE, appTimeout, appDeadline,
                 apc, openTask, readyChan, readySent, opened, appToken, aret>>

\* lines 209-213: the code exchange ends, GetToken returns and token is assigned
GetExchange ==
  /\ variant = "app" /\ ~crashed
  /\ getTask = "exchanging"
  /\ \/ \E t \in ExchangeTokens :
          /\ appToken' = t
          /\ getTask' = "ok"
          /\ UNCHANGED egErr
     \/ /\ getTask' = "err"
        /\ egErr' = GroupErr("could not get a token")
        /\ UNCHANGED appToken
  /\ UNCHANGED <<variant, concVars, scopeVars, refVars, now, crashed, cacheVars, devVars, usePKCE, appTimeout, appDeadline,
                 apc, openTask, readyChan, readySent, listening, opened, aret>>

\* oauth2cli.GetToken sees its context done
GetCtxDone ==
  /\ variant = "app" /\ ~crashed
  /\ getTask \in {"bound", "serving", "exchanging"}
  /\ AppCtxDone
  /\ listening' = FALSE
  /\ getTask' = "err"
  /\ egErr' = GroupErr("could not get a token")
  /\ UNCHANGED <<variant, concVars, scopeVars, refVars, now, crashed, cacheVars, devVars, usePKCE, appTimeout, appDeadline,
                 apc, openTask, readyChan, readySent, opened, appToken, aret>>

\* the URL opened without waiting for the ready signal
ReadyNotAwaited(ch) == TRUE

\* line 197: a value can be received from the channel
ReadyReceived(ch) == ch # <<>>

\* lines 197-202: the first goroutine receives from readyChan and opens the URL
OpenURL ==
  /\ variant = "app" /\ ~crashed
  /\ openTask = "waiting"
  /\ ReadyReceived(readyChan)
  /\ readyChan' = SubSeq(readyChan, 2, Len(readyChan))
  /\ opened' = opened + 1
  /\ openTask' = "ok"
  /\ UNCHANGED <<variant, concVars, scopeVars, refVars, now, crashed, cacheVars, devVars, usePKCE, appTimeout, appDeadline,
                 apc, getTask, readySent, listening, appToken, egErr, aret>>

\* lines 203-204: the first goroutine sees the context done
OpenCtxDone ==
  /\ variant = "app" /\ ~crashed
  /\ openTask = "waiting"
  /\ AppCtxDone
  /\ openTask' = "err"
  /\ egErr' = GroupErr("cancelled while waiting for the local server")
  /\ UNCHANGED <<variant, concVars, scopeVars, refVars, now, crashed, cacheVars, devVars, usePKCE, appTimeout, appDeadline,
                 apc, getTask, readyChan, readySent, listening, opened, appToken, aret>>

\* eg.Wait() returning as soon as one goroutine has
AppGroupDoneFirst == openTask \in {"ok", "err"} \/ getTask \in {"ok", "err"}

\* lines 215-218: eg.Wait() returns once both goroutines have, the error is
\* logged and Token() returns token and a nil error
AppGroupDone == openTask \in {"ok", "err"} /\ getTask \in {"ok", "err"}

AppResult == Result(appToken, NoErr)

AppReturn ==
  /\ variant = "app" /\ ~crashed
  /\ apc = "wait"
  /\ AppGroupDone
  /\ aret' = AppResult
  /\ apc' = "done"
  /\ UNCHANGED <<variant, concVars, scopeVars, refVars, now, crashed, cacheVars, devVars, usePKCE, appTimeout, appDeadline,
                 openTask, getTask, readyChan, readySent, listening, opened, appToken, egErr>>

\* Time passes, unless a goroutine waiting on the done context still has to run.
TickApp ==
  /\ variant = "app" /\ ~crashed
  /\ now < MaxTime
  /\ ~(AppCtxDone /\ (openTask = "waiting" \/ getTask \in {"bound", "serving", "exchanging"}))
  /\ now' = now + 1
  /\ UNCHANGED <<variant, concVars, scopeVars, refVars, crashed, cacheVars, devVars, appVars>>

----------------------------------------------------------------------------
(* Refresh token source: refresher.TokenSource.Token *)

\* the refresh token a rotating provider hands out in exchange for rt
Rotate(rt) == IF rt = "r1" THEN "r2" ELSE IF rt = "r2" THEN "r3" ELSE "r1"

\* what the refresh_token grant for rt returns once the request is sent: a
\* token carrying the submitted refresh token, a rotated one or none, or an error
GrantOutcomes(rt) ==
  {[tok |-> Tok("a2", r, e), err |-> NoErr] :
      r \in {rt, Rotate(rt), ""}, e \in {0, now + 2 * ExpiryDelta}}
    \cup {[tok |-> NilTok, err |-> "refresh"]}

\* the check for an empty refresh token left out
NoRefreshTokenUnchecked(rt) == FALSE

\* the refresh token is empty: no request is made
NoRefreshToken(rt) == rt = ""

\* the stored refresh token kept whatever the result is
StoredAfterNoRotation(stored, out) == stored

\* t.refreshToken after a call: the refresh token of the result when the token
\* is not nil and carries one
StoredAfter(stored, out) ==
  IF ~out.tok.nil /\ out.tok.rt # "" THEN out.tok.rt ELSE stored

\* the record of one Token() call
RefCallRecord(stored, sent, out, after) ==
  [stored |-> stored, sent |-> sent, tok |-> out.tok, err |-> out.err, after |-> after]

\* Token() is called: with an empty refresh token it fails at once, else the
\* refresh_token grant request is sent with the stored refresh token
RefCall ==
  /\ variant = "refresh" /\ ~crashed
  /\ rpc = "idle"
  /\ Len(rcalls) < MaxRefreshCalls
  /\ IF NoRefreshToken(refreshToken)
     THEN /\ rcalls' = Append(rcalls,
                  RefCallRecord(refreshToken, FALSE,
                                [tok |-> NilTok, err |-> "no refresh token provided"],
                                StoredAfter(refreshToken, [tok |-> NilTok, err |-> "no refresh token provided"])))
          /\ UNCHANGED rpc
     ELSE /\ rpc' = "requesting"
          /\ UNCHANGED rcalls
  /\ UNCHANGED <<variant, concVars, scopeVars, now, crashed, cacheVars, devVars, appVars, rimpl, refreshToken>>

\* the grant returns: the stored refresh token follows the result, Token()
\* returns token and error
RefResponse ==
  /\ variant = "refresh" /\ ~crashed
  /\ rpc = "requesting"
  /\ \E out \in GrantOutcomes(refreshToken) :
       /\ refreshToken' = StoredAfter(refreshToken, out)
       /\ rcalls' = Append(rcalls, RefCallRecord(refreshToken, TRUE, out, StoredAfter(refreshToken, out)))
  /\ rpc' = "idle"
  /\ UNCHANGED <<variant, concVars, scopeVars, now, crashed, cacheVars, devVars, appVars, rimpl>>

----------------------------------------------------------------------------
(* Refresh token source: Token() called from two goroutines. Token() takes no
   lock: the read of t.refreshToken, the exchange at the provider and the
   write of t.refreshToken are separate steps of each call. *)

RefCallers == {1, 2}

\* what the rotating provider answers to a refresh_token grant for rt: a new
\* refresh token when rt is the one it accepts, invalid_grant otherwise
ProviderExchange(rt) ==
  IF rt = provider
  THEN [tok |-> Tok("a2", Rotate(rt), now + 2 * ExpiryDelta), err |-> NoErr]
  ELSE [tok |-> NilTok, err |-> "invalid_grant"]

\* Token() is entered: t.refreshToken is read and, unless it is empty, sent
ConcCall(c) ==
  /\ variant = "concurrent" /\ ~crashed
  /\ rcpc[c] = "idle"
  /\ rcount[c] < MaxConcCalls
  /\ IF NoRefreshToken(refreshToken)
     THEN /\ rcount' = [rcount EXCEPT ![c] = @ + 1]
          /\ UNCHANGED <<rcpc, submitted, revents>>
     ELSE /\ submitted' = [submitted EXCEPT ![c] = refreshToken]
          /\ rcpc' = [rcpc EXCEPT ![c] = "sent"]
          /\ revents' = Append(revents, [kind |-> "send", caller |-> c, rt |-> refreshToken,
                                         accepted |-> provider, new |-> ""])
          /\ UNCHANGED rcount
  /\ UNCHANGED <<variant, scopeVars, now, crashed, cacheVars, devVars, appVars, refVars, provider, issued>>

\* the provider handles the request of caller c
ConcExchange(c) ==
  /\ variant = "concurrent" /\ ~crashed
  /\ rcpc[c] = "sent"
  /\ LET out == ProviderExchange(submitted[c])
         new == IF out.err = NoErr THEN out.tok.rt ELSE ""
     IN /\ issued' = [issued EXCEPT ![c] = new]
        /\ provider' = IF out.err = NoErr THEN new ELSE provider
        /\ revents' = Append(revents, [kind |-> "exchange", caller |-> c, rt |-> submitted[c],
                                       accepted |-> provider, new |-> new])
  /\ rcpc' = [rcpc EXCEPT ![c] = "exchanged"]
  /\ UNCHANGED <<variant, scopeVars, now, crashed, cacheVars, devVars, appVars, rimpl, rpc, rcalls,
                 refreshToken, submitted, rcount>>

\* Refresh returns to caller c: t.refreshToken follows the result, Token() returns
ConcReturn(c) ==
  /\ variant = "concurrent" /\ ~crashed
  /\ rcpc[c] = "exchanged"
  /\ LET out == IF issued[c] # ""
                THEN [tok |-> Tok("a2", issued[c], now + 2 * ExpiryDelta), err |-> NoErr]
                ELSE [tok |-> NilTok, err |-> "invalid_grant"]
     IN /\ refreshToken' = StoredAfter(refreshToken, out)
        /\ revents' = Append(revents, [kind |-> "store", caller |-> c, rt |-> submitted[c],
                                       accepted |-> provider, new |-> StoredAfter(refreshToken, out)])
  /\ rcpc' = [rcpc EXCEPT ![c] = "idle"]
  /\ rcount' = [rcount EXCEPT ![c] = @ + 1]
  /\ UNCHANGED <<variant, scopeVars, now, crashed, cacheVars, devVars, appVars, rimpl, rpc, rcalls,
                 provider, submitted, issued>>

----------------------------------------------------------------------------
(* Construction: openid.EnsureOpenIDScope *)

\* gooidc.ScopeOpenID
ScopeOpenID == "openid"

\* openid is appended whether or not the list holds it
EnsureOpenIDScopeAlways(list) == Append(list, ScopeOpenID)

\* lines 7-12 from element i on: return the list as it is when an element is
\* openid, append openid when the loop ends
RECURSIVE EnsureFrom(_, _)
EnsureFrom(list, i) ==
  IF i > Len(list) THEN Append(list, ScopeOpenID)
  ELSE IF list[i] = ScopeOpenID THEN list
  ELSE EnsureFrom(list, i + 1)

\* EnsureOpenIDScope(scopes)
EnsureOpenIDScope(list) == EnsureFrom(list, 1)

\* the scope names used
ScopeNames == {ScopeOpenID, "email", "profile"}

\* the scope lists given to the constructors
ScopeLists == UNION {[1..n -> ScopeNames] : n \in 0..MaxScopes}

\* NewPKCE, NewImplicit, New: the scopes field is EnsureOpenIDScope(scopes)
Construct ==
  /\ variant = "construct"
  /\ spc = "new"
  /\ configured' = EnsureOpenIDScope(scopes)
  /\ spc' = "built"
  /\ UNCHANGED <<variant, concVars, now, crashed, cacheVars, devVars, appVars, refVars, ctor, scopes>>

----------------------------------------------------------------------------
(* Initial states *)

InitFiles ==
  {RawAbsent,
   Marshal(NilTok),
   Marshal(Tok("a1", "r1", 0)),
   Marshal(Tok("a1", "r1", 1 + 2 * ExpiryDelta)),
   Marshal(Tok("a1", "r1", 1)),
   Marshal(Tok("a1", "", 1)),
   Corrupt(Marshal(Tok("a1", "", 0))),
   Corrupt(Marshal(Tok("", "r1", 0)))}

InitMemTokens == {NilTok, Tok("a1", "r1", 1 + 2 * ExpiryDelta)}

CacheIdle ==
  /\ Src = FALSE /\ Refresher = FALSE
  /\ storeKind = "mem" /\ memToken = NilTok /\ file = RawAbsent
  /\ mu = 0
  /\ cpc = [c \in Callers |-> "idle"]
  /\ token = [c \in Callers |-> NilTok]
  /\ err = [c \in Callers |-> NoErr]
  /\ cret = [c \in Callers |-> NoResult]
  /\ loaded = [c \in Callers |-> [tok |-> NilTok, err |-> "none", valid |-> FALSE]]
  /\ refreshLog = [c \in Callers |-> <<>>]
  /\ refreshOut = [c \in Callers |-> <<>>]
  /\ srcOut = [c \in Callers |-> <<>>]
  /\ saves = [c \in Callers |-> <<>>]
  /\ saveFailed = FALSE
  /\ waited = [c \in Callers |-> {}]

CacheInit ==
  /\ variant = "cached"
  /\ Src \in BOOLEAN
  /\ Refresher \in BOOLEAN
  /\ storeKind \in {"mem", "file"}
  /\ IF storeKind = "mem"
     THEN memToken \in InitMemTokens /\ file = RawAbsent
     ELSE memToken = NilTok /\ file \in InitFiles
  /\ mu = 0
  /\ cpc = [c \in Callers |-> "idle"]
  /\ token = [c \in Callers |-> NilTok]
  /\ err = [c \in Callers |-> NoErr]
  /\ cret = [c \in Callers |-> NoResult]
  /\ loaded = [c \in Callers |-> [tok |-> NilTok, err |-> "none", valid |-> FALSE]]
  /\ refreshLog = [c \in Callers |-> <<>>]
  /\ refreshOut = [c \in Callers |-> <<>>]
  /\ srcOut = [c \in Callers |-> <<>>]
  /\ saves = [c \in Callers |-> <<>>]
  /\ saveFailed = FALSE
  /\ waited = [c \in Callers |-> {}]

\* the timeout option of the device and app token sources
Timeouts == {0, 3}

DevIdle ==
  /\ tokenEndpoint = "" /\ authEndpoint = ""
  /\ lastReq = NoRequest
  /\ timeout = 0
  /\ ctxDeadline = 0
  /\ dpc = "idle"
  /\ authResp = NoResp
  /\ codeResps = <<>>
  /\ userURI = NoUserCodeURI
  /\ prompts = <<>>
  /\ opens = <<>>
  /\ pollCalls = 0
  /\ pollStart = 0
  /\ pollDeadline = 0
  /\ nextTick = 0
  /\ tickBuf = FALSE
  /\ polls = <<>>
  /\ dresps = <<>>
  /\ dret = NoResult
  /\ dretTime = 0

DevInit ==
  /\ variant = "device"
  /\ tokenEndpoint = AddDevAuth.tokenEndpoint
  /\ authEndpoint = AddDevAuth.authEndpoint
  /\ lastReq = NoRequest
  /\ timeout \in Timeouts
  /\ ctxDeadline = 0
  /\ dpc = "idle"
  /\ authResp = NoResp
  /\ codeResps = <<>>
  /\ userURI = NoUserCodeURI
  /\ prompts = <<>>
  /\ opens = <<>>
  /\ pollCalls = 0
  /\ pollStart = 0
  /\ pollDeadline = 0
  /\ nextTick = 0
  /\ tickBuf = FALSE
  /\ polls = <<>>
  /\ dresps = <<>>
  /\ dret = NoResult
  /\ dretTime = 0

AppIdle ==
  /\ usePKCE = FALSE
  /\ appTimeout = 0
  /\ appDeadline = 0
  /\ apc = "idle"
  /\ openTask = "none"
  /\ getTask = "none"
  /\ readyChan = <<>>
  /\ readySent = FALSE
  /\ listening = FALSE
  /\ opened = 0
  /\ appToken = NilTok
  /\ egErr = NoErr
  /\ aret = NoResult

AppInit ==
  /\ variant = "app"
  /\ usePKCE \in BOOLEAN
  /\ appTimeout \in Timeouts
  /\ appDeadline = 0
  /\ apc = "idle"
  /\ openTask = "none"
  /\ getTask = "none"
  /\ readyChan = <<>>
  /\ readySent = FALSE
  /\ listening = FALSE
  /\ opened = 0
  /\ appToken = NilTok
  /\ egErr = NoErr
  /\ aret = NoResult

RefIdle ==
  /\ rimpl = "refresher"
  /\ refreshToken = ""
  /\ rpc = "idle"
  /\ rcalls = <<>>

RefInit ==
  /\ variant = "refresh"
  /\ rimpl \in {"refresher", "standalone"}
  /\ refreshToken \in {"", "r1"}
  /\ rpc = "idle"
  /\ rcalls = <<>>

ConcIdle ==
  /\ provider = ""
  /\ rcpc = [c \in RefCallers |-> "idle"]
  /\ submitted = [c \in RefCallers |-> ""]
  /\ issued = [c \in RefCallers |-> ""]
  /\ rcount = [c \in RefCallers |-> 0]
  /\ revents = <<>>

\* the token source holds the refresh token the provider accepts
ConcInit ==
  /\ variant = "concurrent"
  /\ rimpl \in {"refresher", "standalone"}
  /\ refreshToken = "r1"
  /\ rpc = "idle"
  /\ rcalls = <<>>
  /\ provider = "r1"
  /\ rcpc = [c \in RefCallers |-> "idle"]
  /\ submitted = [c \in RefCallers |-> ""]
  /\ issued = [c \in RefCallers |-> ""]
  /\ rcount = [c \in RefCallers |-> 0]
  /\ revents = <<>>

ScopesIdle ==
  /\ ctor = "none"
  /\ scopes = <<>>
  /\ spc = "built"
  /\ configured = <<ScopeOpenID>>

ScopesInit ==
  /\ variant = "construct"
  /\ ctor \in {"NewPKCE", "NewImplicit", "New"}
  /\ scopes \in ScopeLists
  /\ spc = "new"
  /\ configured = <<>>

InitCache == now = 1 /\ crashed = FALSE /\ CacheInit /\ DevIdle /\ AppIdle /\ RefIdle /\ ScopesIdle /\ ConcIdle

InitDev == now = 1 /\ crashed = FALSE /\ DevInit /\ CacheIdle /\ AppIdle /\ RefIdle /\ ScopesIdle /\ ConcIdle

InitApp == now = 1 /\ crashed = FALSE /\ AppInit /\ CacheIdle /\ DevIdle /\ RefIdle /\ ScopesIdle /\ ConcIdle

InitRefresh == now = 1 /\ crashed = FALSE /\ RefInit /\ CacheIdle /\ DevIdle /\ AppIdle /\ ScopesIdle /\ ConcIdle

InitConstruct ==
  now = 1 /\ crashed = FALSE /\ ScopesInit /\ CacheIdle /\ DevIdle /\ AppIdle /\ RefIdle /\ ConcIdle

InitConcurrent ==
  now = 1 /\ crashed = FALSE /\ ConcInit /\ CacheIdle /\ DevIdle /\ AppIdle /\ ScopesIdle

Init == InitCache \/ InitDev \/ InitApp \/ InitRefresh \/ InitConstruct \/ InitConcurrent

NextCache ==
  \/ \E c \in Callers : CallToken(c)
  \/ \E c \in Callers : Lock(c)
  \/ \E c \in Callers : Load(c)
  \/ \E c \in Callers : RefreshDone(c)
  \/ \E c \in Callers : SrcDone(c)
  \/ TickCache

NextDev ==
  \/ DevCall
  \/ CodeResponse
  \/ PromptConfirmed
  \/ SelectDone
  \/ SelectTick
  \/ PollResponse
  \/ PollAgain
  \/ TickDev

NextApp ==
  \/ AppCall
  \/ GetBind
  \/ GetReady
  \/ GetRedirect
  \/ GetExchange
  \/ GetCtxDone
  \/ OpenURL
  \/ OpenCtxDone
  \/ AppReturn
  \/ TickApp

NextRefresh ==
  \/ RefCall
  \/ RefResponse

NextConstruct == Construct

NextConcurrent ==
  \/ \E c \in RefCallers : ConcCall(c)
  \/ \E c \in RefCallers : ConcExchange(c)
  \/ \E c \in RefCallers : ConcReturn(c)

Next == NextCache \/ NextDev \/ NextApp \/ NextRefresh \/ NextConstruct \/ NextConcurrent

\* the cached token source alone
SpecCache == InitCache /\ [][NextCache]_vars

\* the device flow alone
SpecDev == InitDev /\ [][NextDev]_vars

\* the native app flow alone
SpecApp == InitApp /\ [][NextApp]_vars

\* the refresh token source alone
SpecRefresh == InitRefresh /\ [][NextRefresh]_vars

\* the constructors alone
SpecConstruct == InitConstruct /\ [][NextConstruct]_vars

\* the refresh token source called from two goroutines
SpecConcurrent == InitConcurrent /\ [][NextConcurrent]_vars

\* any one of the token sources
Spec == Init /\ [][Next]_vars

----------------------------------------------------------------------------
(* Properties of CachedTokenSource.Token() *)

Done(c) == cpc[c] = "done" /\ ~cret[c].panic

\* the store gave no token: the load failed, or yielded nil or an empty token
NothingLoaded(l) == l.err # NoErr \/ l.tok.nil \/ l.tok.at = ""

\* what a c.Store.Token() made after the step yields
StoreTokenAfter ==
  IF storeKind' = "mem" THEN MemStoreToken(memToken', now') ELSE FileStoreToken(file')

\* C1: with nothing in the store, no refresher and a primary source that returns
\* a valid token T without error, Token() returns T and the store holds T once
\* the call has returned.
C1_SrcTokenPersisted ==
  [][\A c \in Callers :
       (/\ cpc[c] = "authorizing" /\ cpc'[c] = "done"
        /\ NothingLoaded(loaded[c]) /\ ~Refresher
        /\ srcOut'[c][1].err = NoErr /\ Valid(srcOut'[c][1].tok, now))
       => (/\ cret'[c].tok = srcOut'[c][1].tok /\ cret'[c].err = NoErr
           /\ StoreTokenAfter = [tok |-> srcOut'[c][1].tok, err |-> NoErr])]_vars

\* C2: when the refresher succeeds with token R, Token() returns R and Save was
\* called exactly once in the call, with R.
C2_RefreshedTokenSavedOnce ==
  \A c \in Callers :
    (Done(c) /\ refreshOut[c] # <<>> /\ refreshOut[c][1].err = NoErr)
    => (/\ cret[c].tok = refreshOut[c][1].tok /\ cret[c].err = NoErr
        /\ saves[c] = <<refreshOut[c][1].tok>>)

\* C3: when the store load succeeds with a valid token, Token() returns exactly
\* that token, and in the call neither the refresher nor the primary source is
\* invoked nor Save called, whether or not a refresher or a source is configured.
C3_ValidLoadedTokenReturned ==
  \A c \in Callers :
    (loaded[c].err = NoErr /\ loaded[c].valid)
    => (/\ Done(c)
        /\ cret[c].tok = loaded[c].tok /\ cret[c].err = NoErr
        /\ refreshLog[c] = <<>> /\ refreshOut[c] = <<>>
        /\ srcOut[c] = <<>> /\ saves[c] = <<>>)

\* a call returned the valid token it loaded although nothing else is configured
C3_Witness ==
  \E c \in Callers :
    /\ ~Src /\ ~Refresher
    /\ loaded[c].err = NoErr /\ loaded[c].valid
    /\ Done(c) /\ cret[c].tok = loaded[c].tok /\ cret[c].tok.at = "a1"

\* a Token() result is an error, or a token valid when it was returned
GoodResult(r) == r.panic \/ r.err # NoErr \/ r.valid

\* C4: every Token() call of every variant returns an error or a token that is
\* valid at return time.
C4_ValidTokenOrError ==
  /\ \A c \in Callers : GoodResult(cret[c])
  /\ GoodResult(dret)
  /\ GoodResult(aret)

\* the refresher was invoked in the call and failed
RefreshFailed(c) == refreshOut[c] # <<>> /\ refreshOut[c][1].err # NoErr

\* the primary source was invoked in the call and failed
SrcFailed(c) == srcOut[c] # <<>> /\ srcOut[c][1].err # NoErr

\* C5 as stated: a failure e of the refresher or of the primary source makes
\* Token() fail with e.
C5_Original ==
  \A c \in Callers :
    Done(c) =>
      /\ RefreshFailed(c) => cret[c].err = refreshOut[c][1].err
      /\ SrcFailed(c) => cret[c].err = srcOut[c][1].err

\* C5 amended: a failure e of the primary source makes Token() fail with e; the
\* outcome of an invoked primary source is returned as it is.  A failure of the
\* refresher is not returned: the call goes on to the primary source, or fails
\* with the no-source error when there is none.  A failure of the store load is
\* not returned either.
C5_Amended ==
  \A c \in Callers :
    Done(c) =>
      /\ SrcFailed(c) => cret[c].err = srcOut[c][1].err
      /\ srcOut[c] # <<>> => (cret[c].tok = srcOut[c][1].tok /\ cret[c].err = srcOut[c][1].err)
      /\ (RefreshFailed(c) /\ Src) => srcOut[c] # <<>>
      /\ (RefreshFailed(c) /\ ~Src) => (cret[c].err = "nosource" /\ cret[c].tok = NilTok)
      /\ (loaded[c].err = "load" /\ ~Src) => (cret[c].err = "nosource" /\ cret[c].tok = NilTok)
      /\ cret[c].err # "load"

\* a call whose refresh failed and whose primary source then failed as well
C5_Witness ==
  \E c \in Callers :
    Done(c) /\ RefreshFailed(c) /\ SrcFailed(c) /\ cret[c].err = "src"

\* C6: a call that waited for the lock while another call ran the primary
\* source does not run the primary source itself when that call's token is still
\* valid, it returns that token.
C6_SecondCallReusesToken ==
  [][\A c1, c2 \in Callers :
       (/\ c1 # c2 /\ c1 \in waited[c2]
        /\ Done(c1) /\ srcOut[c1] # <<>> /\ cret[c1].err = NoErr
        /\ ~saveFailed
        /\ cpc[c2] = "load" /\ cpc'[c2] # "load"
        /\ Valid(cret[c1].tok, now))
       => (cpc'[c2] = "done" /\ cret'[c2].tok = cret[c1].tok /\ cret'[c2].err = NoErr)]_vars

\* the caller is between c.mu.Lock() and the return
InCall(c) == cpc[c] \in {"load", "refreshing", "authorizing"}

\* C7: at most one call at a time is between the store load and the return, so
\* no two refreshes or primary source flows run at once, and the lock is held
\* by exactly the call in progress and released on return.
C7_OneCallAtATime ==
  /\ \A c1, c2 \in Callers : (InCall(c1) /\ InCall(c2)) => c1 = c2
  /\ \A c \in Callers : InCall(c) <=> mu = c
  /\ (\A c \in Callers : ~InCall(c)) => mu = 0

\* one call runs the primary source while another waits for the lock
C7_Witness ==
  \E c1, c2 \in Callers :
    /\ c1 # c2
    /\ cpc[c1] \in {"refreshing", "authorizing"} /\ mu = c1
    /\ cpc[c2] = "lock"

\* C8: with a loaded token that is not valid, no refresh possible and no primary
\* source, Token() fails with the no-source error, returns no token and invokes
\* neither refresher nor primary source.
C8_NoSourceAvailable ==
  \A c \in Callers :
    (/\ cpc[c] = "done"
     /\ loaded[c].err # "none" /\ ~loaded[c].valid
     /\ ~(loaded[c].tok.rt # "" /\ Refresher)
     /\ ~Src)
    => (/\ ~cret[c].panic
        /\ cret[c].err = "nosource" /\ cret[c].tok = NilTok
        /\ refreshLog[c] = <<>> /\ srcOut[c] = <<>>)

----------------------------------------------------------------------------
(* Properties of the device flow *)

\* the token the code makes of a poll response
IsTokenResp(r) == ~r.neterr /\ ~r.badjson /\ r.access_token # ""

\* the token endpoint answered authorization_pending to every poll but the last
PendingThenToken ==
  /\ dresps # <<>>
  /\ \A i \in 1..(Len(dresps) - 1) : dresps[i] = Pending
  /\ IsTokenResp(dresps[Len(dresps)])

\* the token endpoint answered authorization_pending to every poll so far
AlwaysPending == \A i \in 1..Len(dresps) : dresps[i] = Pending

\* C9: after k pending answers and then a token, before the code expired,
\* PollToken returns that token after exactly k+1 requests, any two consecutive
\* requests at least one poll interval apart.
C9_PollCountAndPacing ==
  (/\ dpc = "done" /\ ~dret.panic
   /\ PendingThenToken
   /\ dretTime < pollDeadline)
  => (/\ dret.err = NoErr
      /\ dret.tok.at = dresps[Len(dresps)].access_token
      /\ Len(polls) = Len(dresps)
      /\ \A i \in 1..(Len(polls) - 1) : polls[i + 1] - polls[i] >= authResp.interval)

\* C10: with a server that always answers pending, PollToken is over no later
\* than expires_in after it started, and ends with the timeout error.
C10_ExpiredWithinLifetime ==
  (AlwaysPending /\ pollStart # 0 /\ ~crashed)
  => (/\ dpc \in {"select", "polling"} => now <= pollStart + authResp.expires_in
      /\ dpc = "done" => (/\ dret.err = "timeout polling device token"
                          /\ dretTime <= pollStart + authResp.expires_in))

\* the absolute time at which the stored device code expires: the time its
\* response was received plus expires_in
CodeExpiry == codeResps[Len(codeResps)].time + authResp.expires_in

\* C11: no token request is ever sent at or after the expiry of the device
\* code, whatever time passes between RequestCode and PollToken and also when
\* the deadline and a poll tick are due together.
C11_NoPollAtOrAfterCodeExpiry ==
  (pollStart # 0 /\ ~crashed) => \A i \in 1..Len(polls) : polls[i] < CodeExpiry

\* the response that arrived in this step
LastResp == dresps'[Len(dresps')]

\* C12: a poll response without access token whose error is
\* authorization_pending does not end the loop and leaves the interval and the
\* ticker as they are; one with any other error value ends the loop at once
\* with an error carrying the error description and no token; once the loop has
\* ended no further token request is sent, unless PollToken is entered again.
C12_PendingContinuesOtherErrorsEnd ==
  [][/\ (dpc = "polling" /\ dresps' # dresps
         /\ ~LastResp.neterr /\ ~LastResp.badjson /\ LastResp.access_token = "")
        => IF LastResp.error = "authorization_pending"
           THEN /\ dpc' = "select" /\ dret' = dret
                /\ authResp' = authResp /\ nextTick' = nextTick
           ELSE /\ dpc' = "done"
                /\ dret'.tok = NilTok /\ dret'.err # NoErr
                /\ dret'.err = LastResp.error_description
     /\ dpc = "done" => (dpc' = "done" /\ polls' = polls) \/ pollCalls' = pollCalls + 1]_vars

\* the loop went on after a pending answer and ended on slow_down
C12_Witness ==
  /\ dpc = "done" /\ Len(dresps) = 2 /\ Len(polls) = 2
  /\ dresps[1] = Pending /\ dresps[2].error = "slow_down"
  /\ dret.err = "slow" /\ dret.tok = NilTok

\* the timeout of the caller ends the context before the device code expires
CallerDeadlineFirst == ctxDeadline # 0 /\ ctxDeadline < pollStart + authResp.expires_in

\* C13: running out of waiting is reported distinctly: the expiry error is the
\* result only when the deadline of the device code was reached, and a caller's
\* timeout that fires before the code expires gives another result (cancelled).
C13_CancelledDistinctFromExpired ==
  (dpc = "done" /\ pollStart # 0 /\ dret.err = "timeout polling device token")
  => ~CallerDeadlineFirst

----------------------------------------------------------------------------
(* Properties of the native app flow *)

\* C14: the URL opener is invoked only after the ready signal of the listener
\* was received, at most once in a call, and never when the exchange task
\* failed before the listener was ready.
C14_OpenOnlyAfterReady ==
  /\ opened <= 1
  /\ opened > 0 => (readySent /\ openTask = "ok")
  /\ (getTask = "err" /\ ~readySent) => opened = 0

\* the URL was opened once, after the ready signal was sent and received
C14_Witness ==
  /\ opened = 1 /\ openTask = "ok"
  /\ readySent /\ readyChan = <<>>
  /\ getTask = "exchanging"

\* C15: when one of the two tasks has failed the other is unblocked, so that
\* Token() returns: with the exchange task failed, the task that waits for the
\* ready signal can receive it or sees its context done, now or at a deadline.
C15_FailureUnblocksOtherTask ==
  (apc = "wait" /\ getTask = "err" /\ openTask = "waiting")
  => (ReadyReceived(readyChan) \/ AppCtxDone \/ appDeadline # 0)

----------------------------------------------------------------------------
(* Properties of the refresh token source *)

\* C16: a call made with an empty refresh token fails with the validation
\* error, returns no token and sends no request to the token endpoint.
C16_EmptyRefreshTokenFailsWithoutRequest ==
  \A i \in 1..Len(rcalls) :
    rcalls[i].stored = ""
    => (/\ rcalls[i].err = "no refresh token provided"
        /\ rcalls[i].tok = NilTok
        /\ ~rcalls[i].sent)

\* a token source made with an empty refresh token was called
C16_Witness ==
  /\ Len(rcalls) >= 1
  /\ rcalls[1].stored = "" /\ ~rcalls[1].sent
  /\ rcalls[1].err = "no refresh token provided"

\* the call's result is a token that carries a refresh token
CarriesRefreshToken(c) == c.err = NoErr /\ ~c.tok.nil /\ c.tok.rt # ""

\* C17: after a successful call whose token carries a refresh token R' the
\* stored refresh token is R' and the next call submits R'; after a failed call
\* or a call whose result carries no refresh token it is unchanged.
C17_RefreshTokenRotation ==
  /\ \A i \in 1..Len(rcalls) :
       /\ CarriesRefreshToken(rcalls[i]) => rcalls[i].after = rcalls[i].tok.rt
       /\ ~CarriesRefreshToken(rcalls[i]) => rcalls[i].after = rcalls[i].stored
       /\ i < Len(rcalls) => rcalls[i + 1].stored = rcalls[i].after
  /\ rcalls # <<>> => refreshToken = rcalls[Len(rcalls)].after

\* a rotation, then a result without refresh token, then a failure
C17_Witness ==
  /\ Len(rcalls) = 3
  /\ rcalls[1].stored = "r1" /\ rcalls[1].tok.rt = "r2"
  /\ rcalls[2].stored = "r2" /\ rcalls[2].sent /\ rcalls[2].err = NoErr /\ rcalls[2].tok.rt = ""
  /\ rcalls[3].stored = "r2" /\ rcalls[3].sent /\ rcalls[3].err = "refresh"
  /\ refreshToken = "r2"

----------------------------------------------------------------------------
(* Properties of RequestCode *)

\* the device code response received in this step
LastCodeResp == codeResps'[Len(codeResps')].resp

\* the response is one the specification rejects: not status 200, not
\* decodable, a required field empty or expires_in not greater than 0
MustReject(r) ==
  \/ r.neterr \/ r.status # 200 \/ r.badjson
  \/ r.data.device_code = "" \/ r.data.user_code = "" \/ r.data.verification_uri = ""
  \/ r.data.expires_in <= 0

\* C18: a response that must be rejected makes RequestCode fail, return no user
\* code and leave the stored grant as it was; an accepted response is stored,
\* with interval 5 when its interval is zero or absent, and the returned value
\* holds the user code and the verification URIs.
C18_RequestCodeValidation ==
  [][(dpc = "reqcode" /\ codeResps' # codeResps)
     => IF MustReject(LastCodeResp)
        THEN /\ dpc' = "done" /\ dret'.err # NoErr /\ dret'.tok = NilTok
             /\ userURI' = NoUserCodeURI
             /\ authResp' = authResp
        ELSE /\ authResp'.device_code = LastCodeResp.data.device_code
             /\ LastCodeResp.data.interval = 0 => authResp'.interval = DefaultInterval
             /\ userURI' = [nil |-> FALSE, user_code |-> LastCodeResp.data.user_code,
                            verification_uri |-> LastCodeResp.data.verification_uri,
                            verification_uri_complete |-> LastCodeResp.data.verification_uri_complete]]_vars

----------------------------------------------------------------------------
(* Properties of the scope normalisation *)

\* the elements of a list
Elems(list) == {list[i] : i \in 1..Len(list)}

\* C19: the configured scope list contains openid, starts with the input list
\* in its order, adds nothing but at most one openid at the end, and
\* normalising it again changes nothing.
C19_OpenIDScopeEnsured ==
  (variant = "construct" /\ spc = "built")
  => (/\ ScopeOpenID \in Elems(configured)
      /\ Len(configured) >= Len(scopes)
      /\ SubSeq(configured, 1, Len(scopes)) = scopes
      /\ Len(configured) <= Len(scopes) + 1
      /\ Len(configured) = Len(scopes) + 1
           => (configured[Len(configured)] = ScopeOpenID /\ ScopeOpenID \notin Elems(scopes))
      /\ EnsureOpenIDScope(configured) = configured)

\* a list without openid got it appended
C19_Witness ==
  /\ variant = "construct" /\ spc = "built" /\ ctor = "New"
  /\ scopes = <<"email", "profile">>
  /\ configured = <<"email", "profile", "openid">>

----------------------------------------------------------------------------
(* Properties of CachedTokenSource.Token() with a rotating provider *)

\* the refresh of call c succeeded and gave another refresh token than the one
\* submitted
Rotated(log, out) ==
  /\ log # <<>> /\ out # <<>>
  /\ out[1].err = NoErr /\ out[1].tok.rt # log[1]

\* the refresh token the store holds after the step
StoredRefreshTokenAfter == IF storeKind' = "mem" THEN memToken'.rt ELSE file'.refresh_token

\* C20: when a call has refreshed successfully and received the rotated refresh
\* token R', the store holds R' once the call has returned, and a later call
\* that refreshes submits R' and not the refresh token rotated away.
C20_RotatedRefreshTokenPersisted ==
  [][\A c \in Callers :
       /\ (/\ cpc[c] = "refreshing" /\ cpc'[c] = "done"
           /\ Rotated(refreshLog'[c], refreshOut'[c]) /\ ~saveFailed')
          => StoredRefreshTokenAfter = refreshOut'[c][1].tok.rt
       /\ (cpc[c] = "load" /\ cpc'[c] = "refreshing" /\ ~saveFailed)
          => \A c1 \in Callers \ {c} :
               (Done(c1) /\ Rotated(refreshLog[c1], refreshOut[c1]))
               => refreshLog'[c][1] # refreshLog[c1][1]]_vars

----------------------------------------------------------------------------
(* Properties of the refresh token source under concurrent calls *)

\* a request sent with a refresh token the provider had stopped accepting
\* because another caller's exchange had replaced it
SubmitsRotatedAway(i) ==
  /\ revents[i].kind = "send"
  /\ revents[i].rt # revents[i].accepted
  /\ \E j \in 1..(i - 1) :
       /\ revents[j].kind = "exchange"
       /\ revents[j].caller # revents[i].caller
       /\ revents[j].rt = revents[i].rt
       /\ revents[j].new # ""

\* the refresh token the last successful exchange issued
LastIssued ==
  LET ok == {j \in 1..Len(revents) : revents[j].kind = "exchange" /\ revents[j].new # ""}
  IN IF ok = {} THEN "r1" ELSE revents[CHOOSE j \in ok : \A k \in ok : k <= j].new

\* C21: with Token() called concurrently against a rotating provider, no call
\* submits a refresh token that another call's completed exchange has rotated
\* away, and once the calls have returned the stored refresh token is the one
\* the last exchange issued
C21_ConcurrentRefreshSafe ==
  /\ \A i \in 1..Len(revents) : ~SubmitsRotatedAway(i)
  /\ (\A c \in RefCallers : rcpc[c] = "idle") => refreshToken = LastIssued

\* RequestCode line 116, PollToken line 160: a request has been sent and its
\* response has not arrived
RequestInFlight == dpc \in {"reqcode", "polling"}

\* the context the request was made under is done
SharedCtxDone ==
  \/ ctxDeadline # 0 /\ now >= ctxDeadline
  \/ dpc = "polling" /\ now >= pollDeadline

\* a step that ends Token() without a response having arrived
ReturnsWithoutResponse ==
  NextDev /\ dpc' = "done" /\ dresps' = dresps /\ codeResps' = codeResps

\* C22: the outbound requests of the device flow are cancellable through the
\* shared context: with a request in flight and the context done, Token() can
\* return without waiting for the response
C22_RequestsCancellable ==
  (variant = "device" /\ ~crashed /\ RequestInFlight /\ SharedCtxDone) => ENABLED ReturnsWithoutResponse

\* a goroutine started by Token() has not returned yet
TaskRunning ==
  \/ openTask \notin {"none", "ok", "err"}
  \/ getTask \notin {"none", "ok", "err"}

\* C23: whenever the app flow Token() has returned, both goroutines it started
\* have finished, on success and on failure
C23_NoTaskOutlivesCall == (variant = "app" /\ apc = "done") => ~TaskRunning

\* Token() has returned after a goroutine failed, and both goroutines are over
C23_Witness ==
  /\ variant = "app" /\ apc = "done"
  /\ egErr # NoErr
  /\ openTask = "ok" /\ getTask = "err"

\* the device code responses RequestCode accepted and stored so far
GrantsStored ==
  Cardinality({i \in 1..Len(codeResps) :
     LET r == codeResps[i].resp
     IN ~(r.neterr \/ r.status # 200 \/ r.badjson \/ InvalidCodeResponse(DecodeCodeResponse(r.data)))})

\* C24: the grant stored by RequestCode is discarded when PollToken completes:
\* a PollToken that no new successful RequestCode preceded sends no poll with
\* the earlier device code
C24_GrantDiscardedAfterPoll ==
  [][(variant = "device" /\ Len(polls') > Len(polls)) => pollCalls <= GrantsStored]_vars

\* c.Src.Token() was invoked in the call of c
SrcInvoked(c) == cpc[c] = "authorizing" \/ Len(srcOut[c]) > 0

\* the call of c loaded a valid token from the store
ValidLoaded(c) == loaded[c].err = NoErr /\ loaded[c].valid

\* a refresh of the call of c succeeded
SomeRefreshSucceeded(c) == \E i \in 1..Len(refreshOut[c]) : refreshOut[c][i].err = NoErr

\* C25: within one Token() call the refresher is invoked at most once and the
\* primary source at most once, and the primary source is invoked only when no
\* valid token was loaded and no refresh succeeded in that call
C25_SingleShot ==
  \A c \in Callers :
    /\ Len(refreshLog[c]) <= 1 /\ Len(refreshOut[c]) <= 1
    /\ Len(srcOut[c]) <= 1
    /\ SrcInvoked(c) => (~ValidLoaded(c) /\ ~SomeRefreshSucceeded(c))

\* a call whose one refresh attempt failed went on to the primary source, once
C25_Witness ==
  \E c \in Callers :
    /\ cpc[c] = "done"
    /\ Len(refreshLog[c]) = 1 /\ Len(refreshOut[c]) = 1 /\ refreshOut[c][1].err # NoErr
    /\ Len(srcOut[c]) = 1

\* C26: in the device flow as the command-line program wires it, the device
\* code request goes to the device authorization endpoint of the provider and
\* every poll goes to its token endpoint
C26_EndpointsNotSwapped ==
  variant = "device" =>
    /\ lastReq.kind = "code" => lastReq.url = Endpoint.DeviceAuthURL
    /\ lastReq.kind = "poll" => lastReq.url = Endpoint.TokenURL

\* C27: Token() returns normally, with a token or an error, for every outcome
\* of the store load, also when the store reports nothing stored as no token
\* and no error
C27_NoCrashOnMissingToken ==
  variant = "cached" => \A c \in Callers : cpc[c] = "done" => ~cret[c].panic

\* C28: for every device code response RequestCode accepts, the interval
\* PollToken gives to its ticker and the lifetime it gives to its deadline are
\* strictly positive
C28_PositiveIntervalAndLifetime ==
  (variant = "device" /\ pollCalls >= 1) => (authResp.interval > 0 /\ authResp.expires_in > 0)

\* C29: Token() of the device flow orders its steps. Nothing is prompted,
\* opened or polled before a device code response was accepted, so a failed
\* code request invokes none of them; the opener is invoked exactly once before
\* PollToken is entered, with the complete verification URI when the server
\* gave one, else with the plain verification URI after the user code was
\* prompted.
C29_DeviceStepOrder ==
  variant = "device" =>
    /\ (prompts # <<>> \/ opens # <<>> \/ pollCalls > 0 \/ lastReq.kind = "poll") => GrantsStored >= 1
    /\ dpc = "prompt" => (opens = <<>> /\ pollCalls = 0)
    /\ (pollCalls > 0 \/ lastReq.kind = "poll") => Len(opens) = 1
    /\ Len(opens) <= 1
    /\ opens # <<>> =>
         IF authResp.verification_uri_complete # ""
         THEN opens = <<authResp.verification_uri_complete>> /\ prompts = <<>>
         ELSE opens = <<authResp.verification_uri>> /\ prompts = <<authResp.user_code>>

\* the user code was prompted, the plain URI opened, and a poll was sent
C29_Witness ==
  /\ variant = "device"
  /\ prompts = <<"uc">> /\ opens = <<"uri">>
  /\ lastReq.kind = "poll" /\ Len(polls) >= 1

\* the token given to the Save made in this step by caller c
SavedNow(c) == saves'[c][Len(saves'[c])]

\* C30: each Store.Save made by CachedTokenSource carries a token that is
\* valid at that moment: not missing, with an access token, not expired
C30_SavedTokenValid ==
  [][\A c \in Callers : saves'[c] # saves[c] => Valid(SavedNow(c), now)]_vars

\* a call that failed has saved the token it held, and that token is valid
C30_Witness ==
  \E c \in Callers :
    /\ cpc[c] = "done" /\ cret[c].err # NoErr
    /\ Len(saves[c]) = 1 /\ Valid(saves[c][1], now)

====
